---- MODULE Spec2Model ----
(***************************************************************************)
(* Model of the timeline layout engine of src/PencilCanvas.js              *)
(* (class TimelineRenderer).                                               *)
(*                                                                         *)
(* Conventions                                                             *)
(*   - a string is the sequence of its UTF-16 code units, so that          *)
(*     Array.prototype.sort and String.prototype.split are computed;       *)
(*     the absent and the empty theme are both falsy and are both <<>>     *)
(*   - a date is its integer time value (Date.prototype.valueOf)           *)
(*   - an x coordinate is an integer; when the window has no duration it   *)
(*     is one of the doubles "NaN", "Infinity", "-Infinity"                *)
(*   - an optional value (tailEnd, x3, epicIndex, minY) is <<>> for        *)
(*     null/undefined and <<v>> for the value v                            *)
(*   - a positioned project is a JavaScript object that several arrays     *)
(*     reference; the model keeps the objects in the sequence objs (the    *)
(*     array allProjects) and an array of objects is a sequence of         *)
(*     indices into objs, so that an assignment to .y is seen through      *)
(*     every reference                                                     *)
(*   - a project or epic name is written <<kind, index, ...>>; a name is   *)
(*     only ever copied and compared for equality                          *)
(*   - presentation fields (color, pencilPressure, pencilThickness) are    *)
(*     copied through unchanged by the layout and are left out             *)
(***************************************************************************)
EXTENDS Integers, Sequences, FiniteSets

VARIABLES
    data,           \* this.data
    displayWidth,   \* this.displayWidth
    displayHeight,  \* this.displayHeight
    fetchPending,   \* the fetch('input1.json') promise of loadDefaultData is unsettled
    themeList,      \* outcome of the last getUniqueThemes call
    dimensions,     \* outcome of the last calculateRequiredDimensions call
    positions       \* outcome of the last calculateTimelinePositions call

\* the animation loop, the controls and the file input of TimelineRenderer
VARIABLES
    isPlaying,      \* this.isPlaying
    animationId,    \* this.animationId: <<>> for null, <<id>> for a timeout id
    timers,         \* ids of the pending setTimeout callbacks
    frames,         \* number of pending requestAnimationFrame(animate) callbacks
    nextTimerId,    \* the id that the next setTimeout returns
    playDisabled,   \* play-button.disabled: <<>> while the script has not assigned it
    stopDisabled,   \* stop-button.disabled: <<>> while the script has not assigned it
    readers,        \* contents of the files whose FileReader has not fired onload
    drawLog,        \* the drawing calls made by the handler that ran last, in order
    history         \* history of the calls, read by the properties only

\* the PencilCanvas instance this.pencil, which listens on the same canvas
VARIABLES
    options,            \* this.pencil.options (color, thickness, alpha)
    isDrawing,          \* this.isDrawing
    isStraightLineMode, \* this.isStraightLineMode
    lastX,              \* this.lastX
    lastY,              \* this.lastY
    straightLineStartX, \* this.straightLineStartX
    straightLineStartY, \* this.straightLineStartY
    stroke,             \* arguments of the _drawPencilStroke call of the last _draw, or <<>>
    styleInUse,         \* options seen by the strokes of the last drawPencilLine, or <<>>
    strokeActive,       \* history: a stroke was started and not ended since
    straightStroke      \* history: the stroke started in straight-line mode, not toggled since

layoutVars == <<data, displayWidth, displayHeight, fetchPending, themeList, dimensions, positions>>
animVars == <<isPlaying, animationId, timers, frames, nextTimerId, playDisabled, stopDisabled,
              readers, drawLog, history>>
sketchVars == <<options, isDrawing, isStraightLineMode, lastX, lastY, straightLineStartX,
                straightLineStartY, stroke, styleInUse, strokeActive,
                straightStroke>>

vars == <<layoutVars, animVars, sketchVars>>

-----------------------------------------------------------------------------
(* Program constants                                                       *)

margin == [top |-> 120, bottom |-> 60, left |-> 120, right |-> 60]
lineHeight == 40
requiredWidth == 1200
minimumHeight == 800
baseHeight == 100
bottomBuffer == 200
topPadding == 20
SPACE == 32

(* 'Default', the key of the bucket of untagged projects *)
DefaultTheme == <<68, 101, 102, 97, 117, 108, 116>>

-----------------------------------------------------------------------------
(* Generic helpers                                                         *)

None == <<>>
Some(v) == <<v>>
Range(s) == {s[i] : i \in DOMAIN s}
Truthy(str) == str # <<>>

RECURSIVE SeqSum(_)
SeqSum(s) == IF s = <<>> THEN 0 ELSE Head(s) + SeqSum(Tail(s))

RECURSIVE Flatten(_)
Flatten(ss) == IF ss = <<>> THEN <<>> ELSE Head(ss) \o Flatten(Tail(ss))

SetMin(S) == CHOOSE m \in S : \A n \in S : m <= n
SetMax(S) == CHOOSE m \in S : \A n \in S : m >= n
Max(a, b) == IF a >= b THEN a ELSE b

(* Math.ceil(n / d) for integers n >= 0, d > 0 *)
CeilDiv(n, d) == (n + d - 1) \div d

(* Math.round(num / den): the nearest integer, halves towards +Infinity *)
MathRound(num, den) ==
    IF den > 0 THEN (2 * num + den) \div (2 * den)
               ELSE (2 * (-num) + (-den)) \div (2 * (-den))

(* a < b for strings, by UTF-16 code units (the default sort order) *)
RECURSIVE StrLess(_, _)
StrLess(a, b) ==
    IF b = <<>> THEN FALSE
    ELSE IF a = <<>> THEN TRUE
    ELSE IF Head(a) # Head(b) THEN Head(a) < Head(b)
    ELSE StrLess(Tail(a), Tail(b))

-----------------------------------------------------------------------------
(* getUniqueThemes                                                         *)

(* Set.prototype.add on a Set kept in insertion order *)
SetAdd(set, v) == IF v \in Range(set) THEN set ELSE Append(set, v)

RECURSIVE CollectThemes(_, _)
CollectThemes(set, items) ==
    IF items = <<>> THEN set
    ELSE CollectThemes(IF Truthy(Head(items).theme) THEN SetAdd(set, Head(items).theme) ELSE set,
                       Tail(items))

(* insertion of one string into a sorted array, after its equals (stable) *)
RECURSIVE SortedInsert(_, _)
SortedInsert(sorted, v) ==
    IF sorted = <<>> THEN <<v>>
    ELSE IF StrLess(v, Head(sorted)) THEN <<v>> \o sorted
    ELSE <<Head(sorted)>> \o SortedInsert(Tail(sorted), v)

(* mutant: the call of sort is missing *)
SortStringsUnsorted(arr) == arr

RECURSIVE SortStrings(_)
SortStrings(arr) ==
    IF arr = <<>> THEN <<>>
    ELSE SortedInsert(SortStrings(SubSeq(arr, 1, Len(arr) - 1)), arr[Len(arr)])

NoData == [isNull |-> TRUE]

getUniqueThemes(d) ==
    IF d = NoData THEN <<>>
    ELSE SortStrings(CollectThemes(CollectThemes(<<>>, d.projectLines), d.epics))

-----------------------------------------------------------------------------
(* calculateLabelHeight, calculateThemeContentHeight, getThemeContent,     *)
(* calculateRequiredDimensions                                             *)

(* themeName.split(' ').length *)
WordCount(themeName) == 1 + Cardinality({i \in DOMAIN themeName : themeName[i] = SPACE})

calculateLabelHeight(themeName) == CeilDiv(WordCount(themeName), 2) * 20

(* epics are objects: an epic contributes lines only if it has a field     *)
(* named projects                                                          *)
EpicLines(epic) == IF "projects" \in DOMAIN epic THEN Len(epic.projects) ELSE 0

RECURSIVE TotalEpicLines(_)
TotalEpicLines(epics) ==
    IF epics = <<>> THEN 0 ELSE EpicLines(Head(epics)) + TotalEpicLines(Tail(epics))

(* mutant: the content height has no minimum of 80 *)
calculateThemeContentHeightNoFloor(projects, epics) ==
    (Len(projects) + TotalEpicLines(epics)) * lineHeight

calculateThemeContentHeight(projects, epics) ==
    Max(80, (Len(projects) + TotalEpicLines(epics)) * lineHeight)

HasTheme(item, themeName) == item.theme = themeName

getThemeContent(d, themeName) ==
    [projects |-> SelectSeq(d.projectLines, LAMBDA p : HasTheme(p, themeName)),
     epics    |-> SelectSeq(d.epics, LAMBDA e : HasTheme(e, themeName))]

DimThemeHeight(d, theme) ==
    LET themeGroup == getThemeContent(d, theme)
        labelHeight == calculateLabelHeight(theme)
        contentHeight == calculateThemeContentHeight(themeGroup.projects, themeGroup.epics)
    IN  Max(labelHeight + 20, contentHeight + 40)

(* mutant: the height has no minimum of 800 *)
calculateRequiredDimensionsNoMinimum(d) ==
    IF d = NoData THEN [width |-> 1200, height |-> 800]
    ELSE LET themes == getUniqueThemes(d)
         IN  [width  |-> requiredWidth,
              height |-> margin.top + margin.bottom + baseHeight
                         + SeqSum([i \in DOMAIN themes |-> DimThemeHeight(d, themes[i])])
                         + bottomBuffer]

calculateRequiredDimensions(d) ==
    IF d = NoData THEN [width |-> 1200, height |-> 800]
    ELSE LET themes == getUniqueThemes(d)
             totalHeight == margin.top + margin.bottom + baseHeight
                            + SeqSum([i \in DOMAIN themes |-> DimThemeHeight(d, themes[i])])
                            + bottomBuffer
         IN  [width |-> requiredWidth, height |-> Max(minimumHeight, totalHeight)]

-----------------------------------------------------------------------------
(* processProject                                                          *)

(* mutant: the comparison of the date-range check is turned around *)
DateRangeInvalidReversed(project) == project.tbeg < project.tend

DateRangeInvalid(project) == project.tend < project.tbeg

(* mutant: the tail-end check accepts a tailEnd equal to the end date *)
TailEndInvalidStrict(project) ==
    project.tailEnd # None /\ project.tailEnd[1] < project.tend

TailEndInvalid(project) ==
    project.tailEnd # None /\ project.tailEnd[1] <= project.tend

ProcessProjectThrows(project) == DateRangeInvalid(project) \/ TailEndInvalid(project)

(* the Error thrown by processProject: its message is a fixed text with    *)
(* the project's name and two of its date values spliced in                *)
ProcessProjectError(project) ==
    IF DateRangeInvalid(project)
    THEN [message |-> "Invalid date range for project", name |-> project.name,
          first |-> project.tend, second |-> project.tbeg]
    ELSE [message |-> "Invalid tailEnd for project", name |-> project.name,
          first |-> project.tailEnd[1], second |-> project.tend]

(* Math.round(this.margin.left + ((date - startDate) / totalDuration) * timelineWidth), *)
(* in exact arithmetic; on the dates of the datasets below the doubles of  *)
(* the code give the same integers. With totalDuration = 0 the ratio is    *)
(* 0/0 = NaN or n/0 = +-Infinity, which the product with the positive      *)
(* timelineWidth, the sum and Math.round all keep                          *)
XRound(date, startDate, totalDuration, timelineWidth) ==
    IF totalDuration = 0
    THEN IF date = startDate THEN "NaN"
         ELSE IF date > startDate THEN "Infinity" ELSE "-Infinity"
    ELSE MathRound(margin.left * totalDuration + (date - startDate) * timelineWidth,
                   totalDuration)

(* the unrounded x is falsy exactly when it is 0 or, with totalDuration =  *)
(* 0, NaN                                                                  *)
XIsZero(date, startDate, totalDuration, timelineWidth) ==
    margin.left * totalDuration + (date - startDate) * timelineWidth = 0

(* mutant: x2 is truncated with Math.floor instead of rounded *)
X2OfFloor(project, startDate, totalDuration, timelineWidth) ==
    (margin.left * totalDuration + (project.tend - startDate) * timelineWidth) \div totalDuration

X2Of(project, startDate, totalDuration, timelineWidth) ==
    XRound(project.tend, startDate, totalDuration, timelineWidth)

(* mutant: x3 is computed from the start date instead of the tail end *)
X3OfFromStart(project, startDate, totalDuration, timelineWidth) ==
    IF project.tailEnd = None THEN None
    ELSE Some(XRound(project.tbeg, startDate, totalDuration, timelineWidth))

X3Of(project, startDate, totalDuration, timelineWidth) ==
    IF project.tailEnd = None THEN None
    ELSE IF XIsZero(project.tailEnd[1], startDate, totalDuration, timelineWidth) THEN None
    ELSE Some(XRound(project.tailEnd[1], startDate, totalDuration, timelineWidth))

(* the object returned when processProject does not throw; yWrites is a    *)
(* history field of the model, not of the object: the number of            *)
(* assignments to y that the object has received since its creation        *)
processProject(project, startDate, totalDuration, timelineWidth, epicIndex) ==
    [name      |-> project.name,
     theme     |-> project.theme,
     tbeg      |-> project.tbeg,
     tend      |-> project.tend,
     tailEnd   |-> project.tailEnd,
     x1        |-> XRound(project.tbeg, startDate, totalDuration, timelineWidth),
     x2        |-> X2Of(project, startDate, totalDuration, timelineWidth),
     x3        |-> X3Of(project, startDate, totalDuration, timelineWidth),
     y         |-> 0,
     yWrites   |-> 0,
     epicIndex |-> epicIndex]

-----------------------------------------------------------------------------
(* resolveCollisionsWithThemes                                             *)

ThemeKey(theme) == IF Truthy(theme) THEN theme ELSE DefaultTheme

(* mutant: the objects are filed in the reverse of their order in          *)
(* allProjects                                                             *)
GroupProjectsReversed(objs, key) ==
    SelectSeq([i \in DOMAIN objs |-> Len(objs) + 1 - i], LAMBDA r : ThemeKey(objs[r].theme) = key)

(* themeGroups[key].projects: the objects of allProjects filed under key *)
GroupProjects(objs, key) ==
    SelectSeq([i \in DOMAIN objs |-> i], LAMBDA r : ThemeKey(objs[r].theme) = key)

(* themeGroups[key].epics: the positioned epics filed under key *)
GroupEpics(epics, key) ==
    SelectSeq([i \in DOMAIN epics |-> i], LAMBDA k : ThemeKey(epics[k].theme) = key)

(* group.projects.forEach(project => { project.y = projectY; projectY +=   *)
(* this.lineHeight })                                                      *)
RECURSIVE AssignY(_, _, _)
AssignY(objs, refs, projectY) ==
    IF refs = <<>> THEN objs
    ELSE AssignY([objs EXCEPT ![Head(refs)].y = projectY,
                              ![Head(refs)].yWrites = @ + 1],
                 Tail(refs), projectY + lineHeight)

(* epicProjects.forEach: projects.find returns the member itself, which is *)
(* an element of allProjects, so projectInAll.y = projectY and             *)
(* epicProject.y = projectY are two assignments to the same object         *)
RECURSIVE AssignEpicY(_, _, _)
AssignEpicY(objs, refs, projectY) ==
    IF refs = <<>> THEN objs
    ELSE AssignEpicY([objs EXCEPT ![Head(refs)].y = projectY,
                                  ![Head(refs)].yWrites = @ + 2],
                     Tail(refs), projectY + lineHeight)

(* one iteration of group.epics.forEach; st = [objs, epics, projectY, list] *)
PlaceEpic(st, k) ==
    LET epicProjects == st.epics[k].projects
        placed == AssignEpicY(st.objs, epicProjects, st.projectY)
        projectYs == {placed[r].y : r \in Range(epicProjects)}
    IN  IF Len(epicProjects) > 0
        THEN [objs     |-> placed,
              epics    |-> [st.epics EXCEPT ![k].minY = Some(SetMin(projectYs)),
                                            ![k].maxY = Some(SetMax(projectYs))],
              projectY |-> st.projectY + Len(epicProjects) * lineHeight,
              list     |-> st.list \o epicProjects]
        ELSE st

RECURSIVE PlaceEpics(_, _)
PlaceEpics(st, ks) ==
    IF ks = <<>> THEN st ELSE PlaceEpics(PlaceEpic(st, Head(ks)), Tail(ks))

(* one iteration of themes.forEach; acc = [objs, epics, currentY, themeData] *)
ResolveTheme(acc, theme) ==
    LET groupProjects == GroupProjects(acc.objs, theme)
        groupEpics == GroupEpics(acc.epics, theme)
        labelHeight == calculateLabelHeight(theme)
        contentHeight == calculateThemeContentHeight(groupProjects,
                             [i \in DOMAIN groupEpics |-> acc.epics[groupEpics[i]]])
        themeHeight == Max(labelHeight + 20, contentHeight + 40)
        standalone == [objs     |-> AssignY(acc.objs, groupProjects, acc.currentY + topPadding),
                       epics    |-> acc.epics,
                       projectY |-> acc.currentY + topPadding + Len(groupProjects) * lineHeight,
                       list     |-> groupProjects]
        done == PlaceEpics(standalone, groupEpics)
        themeObj == [name     |-> theme,
                     y        |-> acc.currentY,
                     height   |-> themeHeight,
                     projects |-> done.list,
                     epics    |-> groupEpics]
    IN  [objs      |-> done.objs,
         epics     |-> done.epics,
         currentY  |-> acc.currentY + themeHeight,
         themeData |-> Append(acc.themeData, themeObj)]

RECURSIVE ResolveThemes(_, _)
ResolveThemes(acc, themes) ==
    IF themes = <<>> THEN acc ELSE ResolveThemes(ResolveTheme(acc, Head(themes)), Tail(themes))

(* the scene: objs is the heap of positioned projects, every other array   *)
(* of projects holds indices into it                                       *)
resolveCollisionsWithThemes(projects, epics, themes) ==
    LET r == ResolveThemes([objs |-> projects, epics |-> epics,
                            currentY |-> margin.top, themeData |-> <<>>], themes)
    IN  [objs     |-> r.objs,
         projects |-> Flatten([i \in DOMAIN r.themeData |-> r.themeData[i].projects]),
         epics    |-> r.epics,
         themes   |-> r.themeData]

-----------------------------------------------------------------------------
(* calculateTimelinePositions                                              *)

(* the processProject calls of one pass, in call order: the standalone     *)
(* projects, then the members of each epic; epicIndex counts from 0        *)
StandaloneCalls(d) ==
    [i \in DOMAIN d.projectLines |->
        [project |-> d.projectLines[i], epicIndex |-> None, epicTheme |-> <<>>]]

EpicCalls(d, e) ==
    [j \in DOMAIN d.epics[e].projectLines |->
        [project |-> d.epics[e].projectLines[j], epicIndex |-> Some(e - 1),
         epicTheme |-> d.epics[e].theme]]

ProcessCalls(d) == StandaloneCalls(d) \o Flatten([e \in DOMAIN d.epics |-> EpicCalls(d, e)])

(* mutant: an epic member does not inherit the theme of its epic *)
ProcessedProjectNoInheritance(call, startDate, totalDuration, timelineWidth) ==
    processProject(call.project, startDate, totalDuration, timelineWidth, call.epicIndex)

(* processProject followed by the theme inheritance of an epic member *)
ProcessedProject(call, startDate, totalDuration, timelineWidth) ==
    LET processedProject == processProject(call.project, startDate, totalDuration,
                                           timelineWidth, call.epicIndex)
    IN  IF call.epicIndex # None /\ ~Truthy(processedProject.theme) /\ Truthy(call.epicTheme)
        THEN [processedProject EXCEPT !.theme = call.epicTheme]
        ELSE processedProject

(* p.x3 || p.x2 *)
EndX(p) == IF p.x3 # None /\ p.x3[1] # 0 THEN p.x3[1] ELSE p.x2

(* p.x3 || p.x2 when totalDuration = 0: a non-null x3 is +-Infinity *)
EndXNonFinite(p) == IF p.x3 # None THEN p.x3[1] ELSE p.x2

(* Math.min and Math.max over NaN and +-Infinity *)
MathMinNonFinite(S) ==
    IF "NaN" \in S THEN "NaN" ELSE IF "-Infinity" \in S THEN "-Infinity" ELSE "Infinity"
MathMaxNonFinite(S) ==
    IF "NaN" \in S THEN "NaN" ELSE IF "Infinity" \in S THEN "Infinity" ELSE "-Infinity"

(* index in allProjects of the object made for member j of epic e *)
MemberRef(d, e, j) ==
    Len(d.projectLines) + SeqSum([k \in 1..(e - 1) |-> Len(d.epics[k].projectLines)]) + j

PositionedEpic(d, objs, e) ==
    LET epicProjects == [j \in DOMAIN d.epics[e].projectLines |-> MemberRef(d, e, j)]
    IN  [name      |-> d.epics[e].name,
         theme     |-> d.epics[e].theme,
         projects  |-> epicProjects,
         x1        |-> IF d.tend = d.tbeg
                       THEN MathMinNonFinite({objs[r].x1 : r \in Range(epicProjects)})
                       ELSE SetMin({objs[r].x1 : r \in Range(epicProjects)}),
         x2        |-> IF d.tend = d.tbeg
                       THEN MathMaxNonFinite({EndXNonFinite(objs[r]) : r \in Range(epicProjects)})
                       ELSE SetMax({EndX(objs[r]) : r \in Range(epicProjects)}),
         epicIndex |-> e - 1,
         minY      |-> None,
         maxY      |-> None]

(* epics.push happens only for an epic with at least one member *)
PositionedEpics(d, objs) ==
    LET kept == SelectSeq([e \in DOMAIN d.epics |-> e],
                          LAMBDA e : Len(d.epics[e].projectLines) > 0)
    IN  [i \in DOMAIN kept |-> PositionedEpic(d, objs, kept[i])]

EmptyScene == [objs |-> <<>>, projects |-> <<>>, epics |-> <<>>, themes |-> <<>>]

Returned(v) == [status |-> "returned", value |-> v]
Threw(e) == [status |-> "threw", error |-> e]
NotCalled == [status |-> "none"]

(* the outcome of calculateTimelinePositions: the scene it returns or the  *)
(* Error of the first processProject call that throws                      *)
calculateTimelinePositions(d, width) ==
    IF d = NoData THEN Returned(EmptyScene)
    ELSE LET startDate == d.tbeg
             totalDuration == d.tend - d.tbeg
             timelineWidth == width - margin.left - margin.right
             themes == getUniqueThemes(d)
             calls == ProcessCalls(d)
             throwing == {i \in DOMAIN calls : ProcessProjectThrows(calls[i].project)}
             allProjects == [i \in DOMAIN calls |->
                                ProcessedProject(calls[i], startDate, totalDuration, timelineWidth)]
         IN  IF throwing # {}
             THEN Threw(ProcessProjectError(calls[SetMin(throwing)].project))
             ELSE Returned(resolveCollisionsWithThemes(allProjects,
                               PositionedEpics(d, allProjects), themes))

-----------------------------------------------------------------------------
(* Input datasets                                                          *)

MaxStandalone == 2
MaxMembers == 2
MaxTall == 9
MaxWords == 12

ThemeA == <<65>>
ThemeB == <<66>>
ThemeC == <<67>>
Themes == {<<>>, ThemeA, ThemeB}

SeqsUpTo(S, n) == UNION {[1..k -> S] : k \in 0..n}

Project(name, theme, tbeg, tend, tailEnd) ==
    [name |-> name, theme |-> theme, tbeg |-> tbeg, tend |-> tend, tailEnd |-> tailEnd]

(* a project well inside the window below, without a tail *)
PlainWindow == [tbeg |-> 0, tend |-> 2048]
PlainProject(name, theme) == Project(name, theme, 512, 1024, None)

Dataset(window, projectLines, epics) ==
    [tbeg |-> window.tbeg, tend |-> window.tend, projectLines |-> projectLines, epics |-> epics]

(* datasets that vary the themes and the grouping: standalone projects and *)
(* at most one epic                                                        *)
ThemedEpic(e, theme, memberThemes) ==
    [name |-> <<"E", e>>, theme |-> theme,
     projectLines |-> [j \in DOMAIN memberThemes |-> PlainProject(<<"M", e, j>>, memberThemes[j])]]

ThemedDatasets ==
    {Dataset(PlainWindow,
             [i \in DOMAIN st |-> PlainProject(<<"S", i>>, st[i])],
             [e \in DOMAIN es |-> ThemedEpic(e, es[e][1], es[e][2])]) :
        st \in SeqsUpTo(Themes, MaxStandalone),
        es \in {<<>>} \cup {<<ep>> : ep \in Themes \X SeqsUpTo(Themes, MaxMembers)}}

(* datasets with one epic of many members *)
TallDatasets ==
    {Dataset(PlainWindow, <<>>, <<ThemedEpic(1, ThemeA, [j \in 1..n |-> <<>>])>>) : n \in 1..MaxTall}

(* datasets that vary the dates: at most one standalone project and at     *)
(* most one epic member, each with every combination of the dates below    *)
Windows == {[tbeg |-> 0, tend |-> 2048], [tbeg |-> 34, tend |-> 68]}
Dates == {2, 3, 30, 4096}
DateTriples == Dates \X Dates \X ({None} \cup {Some(t) : t \in Dates})

DatedProject(name, theme, triple) == Project(name, theme, triple[1], triple[2], triple[3])

DatedDatasets ==
    {Dataset(w,
             [i \in DOMAIN st |-> DatedProject(<<"S", i>>, ThemeA, st[i])],
             <<[name |-> <<"E", 1>>, theme |-> ThemeB,
                projectLines |-> [j \in DOMAIN ms |-> DatedProject(<<"M", 1, j>>, <<>>, ms[j])]]>>) :
        w \in Windows, st \in SeqsUpTo(DateTriples, 1), ms \in SeqsUpTo(DateTriples, 1)}

(* datasets of standalone projects of one theme whose spans are disjoint,  *)
(* overlapping or out of date order                                        *)
Spans == {<<256, 512>>, <<384, 768>>, <<512, 1024>>}

SpanDatasets ==
    {Dataset(PlainWindow,
             [i \in DOMAIN sp |-> Project(<<"S", i>>, ThemeA, sp[i][1], sp[i][2], None)],
             <<>>) :
        sp \in SeqsUpTo(Spans, MaxStandalone + 1)}

(* datasets with a theme name of several words: one or two standalone     *)
(* projects of that theme, one of theme B and at most one epic of theme C  *)
WordyTheme(w) == [i \in 1..(2 * w - 1) |-> IF i % 2 = 1 THEN 65 ELSE SPACE]

WordyDatasets ==
    {Dataset(PlainWindow,
             [i \in 1..n |-> PlainProject(<<"S", i>>, WordyTheme(w))]
                 \o <<PlainProject(<<"S", n + 1>>, ThemeB)>>,
             es) :
        n \in 1..2, w \in 1..MaxWords, es \in {<<>>, <<ThemedEpic(1, ThemeC, <<<<>>>>)>>}}

(* datasets whose window ends before it starts or has no duration *)
InvalidWindows == {[tbeg |-> 2048, tend |-> 0], [tbeg |-> 30, tend |-> 30]}
WindowDates == {2, 30, 4096}
WindowTriples == WindowDates \X WindowDates \X ({None} \cup {Some(t) : t \in WindowDates})

InvalidWindowDatasets ==
    {Dataset(w,
             [i \in DOMAIN st |-> DatedProject(<<"S", i>>, ThemeA, st[i])],
             <<[name |-> <<"E", 1>>, theme |-> ThemeB,
                projectLines |-> [j \in DOMAIN ms |-> DatedProject(<<"M", 1, j>>, <<>>, ms[j])]]>>) :
        w \in InvalidWindows, st \in SeqsUpTo(WindowTriples, 1), ms \in SeqsUpTo(WindowTriples, 1)}

(* datasets with two epics of one member each and at most one standalone   *)
(* project                                                                 *)
TwoEpicDatasets ==
    {Dataset(PlainWindow,
             [i \in DOMAIN st |-> PlainProject(<<"S", i>>, st[i])],
             <<ThemedEpic(1, e1[1], <<e1[2]>>), ThemedEpic(2, e2[1], <<e2[2]>>)>>) :
        st \in SeqsUpTo(Themes, 1), e1 \in Themes \X Themes, e2 \in Themes \X Themes}

Datasets ==
    ThemedDatasets \cup TwoEpicDatasets \cup TallDatasets \cup DatedDatasets
        \cup InvalidWindowDatasets \cup SpanDatasets \cup WordyDatasets

-----------------------------------------------------------------------------
(* State machine                                                           *)

(* the constructor of TimelineRenderer: no animation, no timer, no file    *)
(* being read; the disabled attribute of the buttons is the markup's       *)
AnimInit ==
    /\ isPlaying = FALSE
    /\ animationId = None
    /\ timers = {}
    /\ frames = 0
    /\ nextTimerId = 1
    /\ playDisabled = None
    /\ stopDisabled = None
    /\ readers = {}
    /\ drawLog = <<>>
    /\ history = [stopped |-> FALSE, controlsUsed |-> FALSE, userData |-> None]

(* new PencilCanvas(canvas, {color: '#336699', thickness: 2, density: 0.8, *)
(* alpha: 0.9}) in setupCanvas; thickness and alpha are in thousandths     *)
SketchInit ==
    /\ options = [color |-> "#336699", thickness |-> 2000, alpha |-> 900]
    /\ isDrawing = FALSE
    /\ isStraightLineMode = FALSE
    /\ lastX = 0
    /\ lastY = 0
    /\ straightLineStartX = 0
    /\ straightLineStartY = 0
    /\ stroke = None
    /\ styleInUse = None
    /\ strokeActive = FALSE
    /\ straightStroke = FALSE

(* the state after new TimelineRenderer(): setupCanvas has called          *)
(* resizeCanvas, which sized the canvas with calculateRequiredDimensions   *)
(* for no data, and loadDefaultData has started its fetch                  *)
Init ==
    /\ data = NoData
    /\ displayWidth = calculateRequiredDimensions(NoData).width
    /\ displayHeight = calculateRequiredDimensions(NoData).height
    /\ fetchPending = TRUE
    /\ themeList = NotCalled
    /\ dimensions = Returned(calculateRequiredDimensions(NoData))
    /\ positions = NotCalled
    /\ AnimInit
    /\ SketchInit

(* a call of getUniqueThemes *)
GetUniqueThemes ==
    /\ themeList' = Returned(getUniqueThemes(data))
    /\ UNCHANGED <<data, displayWidth, displayHeight, fetchPending, dimensions, positions>>
    /\ UNCHANGED <<animVars, sketchVars>>

(* a call of calculateRequiredDimensions; it calls getUniqueThemes when    *)
(* data is loaded                                                          *)
CalculateRequiredDimensions ==
    /\ dimensions' = Returned(calculateRequiredDimensions(data))
    /\ themeList' = IF data = NoData THEN themeList ELSE Returned(getUniqueThemes(data))
    /\ UNCHANGED <<data, displayWidth, displayHeight, fetchPending, positions>>
    /\ UNCHANGED <<animVars, sketchVars>>

(* mutant: the theme that a member inherits is assigned to the project of  *)
(* the dataset instead of to the copy that processProject makes of it      *)
InheritedInPlace(epic) ==
    [epic EXCEPT !.projectLines =
        [j \in DOMAIN epic.projectLines |->
            IF ~Truthy(epic.projectLines[j].theme) /\ Truthy(epic.theme)
            THEN [epic.projectLines[j] EXCEPT !.theme = epic.theme]
            ELSE epic.projectLines[j]]]

CalculateTimelinePositionsInPlace ==
    /\ positions' = calculateTimelinePositions(data, displayWidth)
    /\ themeList' = IF data = NoData THEN themeList ELSE Returned(getUniqueThemes(data))
    /\ data' = IF data = NoData THEN data
               ELSE [data EXCEPT !.epics = [e \in DOMAIN data.epics |-> InheritedInPlace(data.epics[e])]]
    /\ UNCHANGED <<displayWidth, displayHeight, fetchPending, dimensions>>
    /\ UNCHANGED <<animVars, sketchVars>>

(* a call of calculateTimelinePositions *)
CalculateTimelinePositions ==
    /\ positions' = calculateTimelinePositions(data, displayWidth)
    /\ themeList' = IF data = NoData THEN themeList ELSE Returned(getUniqueThemes(data))
    /\ UNCHANGED <<data, displayWidth, displayHeight, fetchPending, dimensions>>
    /\ UNCHANGED <<animVars, sketchVars>>

(* the fetch of loadDefaultData is fulfilled with the dataset d: the       *)
(* handler installs d, resizes the canvas (resizeCanvas) and renders       *)
(* (renderTimeline); an Error thrown by the render is caught by the        *)
(* promise chain, which leaves data installed                              *)
LoadDefaultData(d) ==
    LET dims == calculateRequiredDimensions(d)
    IN  /\ fetchPending
        /\ fetchPending' = FALSE
        /\ data' = d
        /\ dimensions' = Returned(dims)
        /\ displayWidth' = dims.width
        /\ displayHeight' = dims.height
        /\ themeList' = Returned(getUniqueThemes(d))
        /\ positions' = calculateTimelinePositions(d, dims.width)
        /\ UNCHANGED <<animVars, sketchVars>>

(* the fetch is rejected or its body is not JSON: only a log line *)
LoadDefaultDataFailed ==
    /\ fetchPending
    /\ fetchPending' = FALSE
    /\ UNCHANGED <<data, displayWidth, displayHeight, themeList, dimensions, positions>>
    /\ UNCHANGED <<animVars, sketchVars>>

-----------------------------------------------------------------------------
(* renderTimeline                                                          *)

(* a drawing call of renderTimeline: the method and the index of the       *)
(* block, epic or positioned project it is given (0 when it takes none)    *)
Call(op, arg) == [op |-> op, arg |-> arg]

DrawProjects(scene) ==
    Flatten([i \in DOMAIN scene.projects |->
                <<Call("drawProjectLine", scene.projects[i]),
                  Call("drawProjectLabel", scene.projects[i])>>])

(* mutant: the epic labels are drawn before the project lines *)
RenderLogLabelsFirst(d, outcome) ==
    IF d = NoData \/ outcome.status = "threw" THEN <<Call("clearCanvas", 0)>>
    ELSE LET scene == outcome.value
         IN  <<Call("clearCanvas", 0), Call("drawTopTimeline", 0)>>
             \o [b \in DOMAIN scene.themes |-> Call("drawThemeLane", b)]
             \o [k \in DOMAIN scene.epics |-> Call("drawEpicGrouping", k)]
             \o [k \in DOMAIN scene.epics |-> Call("drawEpicLabel", k)]
             \o DrawProjects(scene)

(* the drawing calls of one renderTimeline, in order; outcome is the       *)
(* outcome of its calculateTimelinePositions call, whose Error leaves      *)
(* renderTimeline after clearCanvas                                        *)
RenderLog(d, outcome) ==
    IF d = NoData \/ outcome.status = "threw" THEN <<Call("clearCanvas", 0)>>
    ELSE LET scene == outcome.value
         IN  <<Call("clearCanvas", 0), Call("drawTopTimeline", 0)>>
             \o [b \in DOMAIN scene.themes |-> Call("drawThemeLane", b)]
             \o [k \in DOMAIN scene.epics |-> Call("drawEpicGrouping", k)]
             \o DrawProjects(scene)
             \o [k \in DOMAIN scene.epics |-> Call("drawEpicLabel", k)]

(* renderTimeline() on the dataset d and the canvas width                  *)
renderTimeline(d, width) ==
    LET outcome == calculateTimelinePositions(d, width)
    IN  /\ positions' = IF d = NoData THEN positions ELSE outcome
        /\ themeList' = IF d = NoData THEN themeList ELSE Returned(getUniqueThemes(d))
        /\ drawLog' = RenderLog(d, outcome)

RenderThrows(d, width) == d # NoData /\ calculateTimelinePositions(d, width).status = "threw"

-----------------------------------------------------------------------------
(* startAnimation, stopAnimation, loadFile, loadDefaultData                *)

MaxTimerId == 3
MaxReaders == 1

(* the datasets of the animation: the default input1.json, a file of the   *)
(* user, a file whose project ends before it starts, and a file that is    *)
(* not JSON                                                                *)
DefaultDataset ==
    Dataset(PlainWindow, <<PlainProject(<<"S", 1>>, ThemeA)>>, <<ThemedEpic(1, ThemeB, <<<<>>>>)>>)
UserDataset == Dataset(PlainWindow, <<PlainProject(<<"S", 1>>, ThemeB)>>, <<>>)
BrokenDataset == Dataset(PlainWindow, <<Project(<<"S", 1>>, ThemeA, 1024, 512, None)>>, <<>>)
NotJson == [syntaxError |-> TRUE]
Files == {UserDataset, BrokenDataset, NotJson}

(* mutant: stopAnimation does not disable the stop button *)
stopAnimationKeepsStopButton ==
    /\ isPlaying' = FALSE
    /\ timers' = IF animationId # None THEN timers \ {animationId[1]} ELSE timers
    /\ animationId' = None
    /\ playDisabled' = Some(FALSE)
    /\ stopDisabled' = stopDisabled

(* the body of stopAnimation *)
stopAnimation ==
    /\ isPlaying' = FALSE
    /\ timers' = IF animationId # None THEN timers \ {animationId[1]} ELSE timers
    /\ animationId' = None
    /\ playDisabled' = Some(FALSE)
    /\ stopDisabled' = Some(TRUE)

(* mutant: animate does not test this.isPlaying *)
animateUnchecked(playing) ==
    /\ renderTimeline(data, displayWidth)
    /\ IF RenderThrows(data, displayWidth)
       THEN UNCHANGED <<timers, animationId, nextTimerId>>
       ELSE /\ nextTimerId <= MaxTimerId
            /\ timers' = timers \cup {nextTimerId}
            /\ animationId' = Some(nextTimerId)
            /\ nextTimerId' = nextTimerId + 1

(* the closure animate, called while this.isPlaying has the value playing: *)
(* it renders and arms the 100 ms timer; an Error of the render leaves     *)
(* animate before setTimeout                                               *)
animate(playing) ==
    IF ~playing
    THEN /\ drawLog' = <<>>
         /\ UNCHANGED <<positions, themeList, timers, animationId, nextTimerId>>
    ELSE /\ renderTimeline(data, displayWidth)
         /\ IF RenderThrows(data, displayWidth)
            THEN UNCHANGED <<timers, animationId, nextTimerId>>
            ELSE /\ nextTimerId <= MaxTimerId
                 /\ timers' = timers \cup {nextTimerId}
                 /\ animationId' = Some(nextTimerId)
                 /\ nextTimerId' = nextTimerId + 1

(* click on play-button: startAnimation() *)
ClickPlay ==
    /\ IF data = NoData \/ isPlaying
       THEN /\ drawLog' = <<>>
            /\ UNCHANGED <<isPlaying, playDisabled, stopDisabled, positions, themeList,
                           timers, animationId, nextTimerId>>
       ELSE /\ isPlaying' = TRUE
            /\ playDisabled' = Some(TRUE)
            /\ stopDisabled' = Some(FALSE)
            /\ animate(TRUE)
    /\ history' = [history EXCEPT !.stopped = FALSE,
                                  !.controlsUsed = @ \/ (data # NoData /\ ~isPlaying)]
    /\ UNCHANGED <<data, displayWidth, displayHeight, fetchPending, dimensions, frames, readers>>
    /\ UNCHANGED sketchVars

(* click on stop-button: stopAnimation() *)
ClickStop ==
    /\ stopAnimation
    /\ drawLog' = <<>>
    /\ history' = [history EXCEPT !.stopped = TRUE, !.controlsUsed = TRUE]
    /\ UNCHANGED <<layoutVars, frames, nextTimerId, readers, sketchVars>>

(* click on clear-canvas: stopAnimation() and clearCanvas() *)
ClickClear ==
    /\ stopAnimation
    /\ drawLog' = <<Call("clearCanvas", 0)>>
    /\ history' = [history EXCEPT !.stopped = TRUE, !.controlsUsed = TRUE]
    /\ UNCHANGED <<layoutVars, frames, nextTimerId, readers, sketchVars>>

(* the 100 ms timer id fires: requestAnimationFrame(animate) *)
TimerFires(id) ==
    /\ id \in timers
    /\ timers' = timers \ {id}
    /\ frames' = frames + 1
    /\ drawLog' = <<>>
    /\ UNCHANGED <<layoutVars, isPlaying, animationId, nextTimerId, playDisabled, stopDisabled,
                   readers, history, sketchVars>>

(* a requestAnimationFrame callback runs animate *)
AnimationFrame ==
    /\ frames > 0
    /\ frames' = frames - 1
    /\ animate(isPlaying)
    /\ UNCHANGED <<data, displayWidth, displayHeight, fetchPending, dimensions, isPlaying,
                   playDisabled, stopDisabled, readers, history, sketchVars>>

(* change of file-input: loadFile(file) starts a FileReader *)
SelectFile(file) ==
    /\ Cardinality(readers) < MaxReaders
    /\ readers' = readers \cup {file}
    /\ drawLog' = <<>>
    /\ UNCHANGED <<layoutVars, isPlaying, animationId, timers, frames, nextTimerId,
                   playDisabled, stopDisabled, history, sketchVars>>

(* reader.onload of loadFile: JSON.parse throws before the assignment to   *)
(* this.data; an Error of renderTimeline is caught after the assignment,   *)
(* stopAnimation and resizeCanvas                                          *)
FileReaderOnload(file) ==
    /\ file \in readers
    /\ readers' = readers \ {file}
    /\ IF file = NotJson
       THEN /\ drawLog' = <<>>
            /\ UNCHANGED <<data, displayWidth, displayHeight, dimensions, positions, themeList,
                           isPlaying, timers, animationId, playDisabled, stopDisabled, history>>
       ELSE LET dims == calculateRequiredDimensions(file)
            IN  /\ data' = file
                /\ stopAnimation
                /\ dimensions' = Returned(dims)
                /\ displayWidth' = dims.width
                /\ displayHeight' = dims.height
                /\ renderTimeline(file, dims.width)
                /\ history' = [history EXCEPT !.stopped = TRUE, !.controlsUsed = TRUE,
                                              !.userData = Some(file)]
    /\ UNCHANGED <<fetchPending, frames, nextTimerId, sketchVars>>

(* the fetch of loadDefaultData is fulfilled with the dataset d: the       *)
(* handler installs d, resizes the canvas and renders; it does not call    *)
(* stopAnimation                                                           *)
FetchFulfilled(d) ==
    LET dims == calculateRequiredDimensions(d)
    IN  /\ fetchPending
        /\ fetchPending' = FALSE
        /\ data' = d
        /\ dimensions' = Returned(dims)
        /\ displayWidth' = dims.width
        /\ displayHeight' = dims.height
        /\ renderTimeline(d, dims.width)
        /\ UNCHANGED <<isPlaying, animationId, timers, frames, nextTimerId, playDisabled,
                       stopDisabled, readers, history, sketchVars>>

AnimNext ==
    \/ ClickPlay
    \/ ClickStop
    \/ ClickClear
    \/ \E id \in 1..MaxTimerId : TimerFires(id)
    \/ AnimationFrame
    \/ \E file \in Files : SelectFile(file)
    \/ \E file \in Files : FileReaderOnload(file)
    \/ FetchFulfilled(DefaultDataset)
    \/ LoadDefaultDataFailed

SpecAnim == Init /\ [][AnimNext]_vars

-----------------------------------------------------------------------------
(* Sketching: the PencilCanvas event handlers and the shared pencil style  *)

(* largest canvas coordinate of the pointer positions *)
MaxCoord == 1
Coords == 0 .. MaxCoord

Abs(n) == IF n < 0 THEN -n ELSE n

(* the largest q in lo .. hi with q * q <= n *)
RECURSIVE SqrtBetween(_, _, _)
SqrtBetween(lo, hi, n) ==
    IF lo = hi
    THEN lo
    ELSE LET mid == (lo + hi + 1) \div 2
         IN  IF mid * mid <= n THEN SqrtBetween(mid, hi, n) ELSE SqrtBetween(lo, mid - 1, n)

(* Math.sqrt of a ratio in 0 .. 1, both in thousandths, rounded down *)
SqrtThousandths(r) == SqrtBetween(0, 1000, 1000 * r)

(* what the pointer events leave alone *)
sketchStyle == <<options, styleInUse>>

(* _startDrawing(e) with _getCoords(e) = (x, y) *)
startDrawing(x, y) ==
    /\ isDrawing' = TRUE
    /\ lastX' = x
    /\ lastY' = y
    /\ straightLineStartX' = x
    /\ straightLineStartY' = y
    /\ stroke' = None

(* _stopDrawing() *)
stopDrawing ==
    /\ isDrawing' = FALSE
    /\ stroke' = None
    /\ UNCHANGED <<lastX, lastY, straightLineStartX, straightLineStartY>>

(* the end point _draw computes for _getCoords(e) = (x, y) *)
CurrentPoint(x, y) ==
    IF isStraightLineMode
    THEN LET dx == Abs(x - straightLineStartX)
             dy == Abs(y - straightLineStartY)
         IN  IF dx > dy THEN <<x, straightLineStartY>> ELSE <<straightLineStartX, y>>
    ELSE <<x, y>>

(* mutant: _draw without the test of isDrawing *)
drawUnguarded(x, y) ==
    LET current == CurrentPoint(x, y)
    IN  /\ stroke' = Some(<<lastX, lastY, current[1], current[2]>>)
        /\ lastX' = current[1]
        /\ lastY' = current[2]
        /\ UNCHANGED <<isDrawing, straightLineStartX, straightLineStartY>>

(* _draw(e) with _getCoords(e) = (x, y) *)
draw(x, y) ==
    IF ~isDrawing
    THEN /\ stroke' = None
         /\ UNCHANGED <<isDrawing, lastX, lastY, straightLineStartX, straightLineStartY>>
    ELSE LET current == CurrentPoint(x, y)
         IN  /\ stroke' = Some(<<lastX, lastY, current[1], current[2]>>)
             /\ lastX' = current[1]
             /\ lastY' = current[2]
             /\ UNCHANGED <<isDrawing, straightLineStartX, straightLineStartY>>

MouseDown(x, y) ==
    /\ startDrawing(x, y)
    /\ strokeActive' = TRUE
    /\ straightStroke' = isStraightLineMode
    /\ UNCHANGED <<isStraightLineMode, sketchStyle, layoutVars, animVars>>

TouchStart(x, y) ==
    /\ startDrawing(x, y)
    /\ strokeActive' = TRUE
    /\ straightStroke' = isStraightLineMode
    /\ UNCHANGED <<isStraightLineMode, sketchStyle, layoutVars, animVars>>

MouseMove(x, y) ==
    /\ draw(x, y)
    /\ UNCHANGED <<isStraightLineMode, strokeActive, straightStroke, sketchStyle,
                   layoutVars, animVars>>

TouchMove(x, y) ==
    /\ draw(x, y)
    /\ UNCHANGED <<isStraightLineMode, strokeActive, straightStroke, sketchStyle,
                   layoutVars, animVars>>

MouseUp ==
    /\ stopDrawing
    /\ strokeActive' = FALSE
    /\ UNCHANGED <<isStraightLineMode, straightStroke, sketchStyle, layoutVars, animVars>>

MouseOut ==
    /\ stopDrawing
    /\ strokeActive' = FALSE
    /\ UNCHANGED <<isStraightLineMode, straightStroke, sketchStyle, layoutVars, animVars>>

TouchEnd ==
    /\ stopDrawing
    /\ strokeActive' = FALSE
    /\ UNCHANGED <<isStraightLineMode, straightStroke, sketchStyle, layoutVars, animVars>>

(* toggleStraightLineMode() *)
ToggleStraightLineMode ==
    /\ isStraightLineMode' = ~isStraightLineMode
    /\ straightStroke' = FALSE
    /\ stroke' = None
    /\ UNCHANGED <<isDrawing, lastX, lastY, straightLineStartX, straightLineStartY,
                   strokeActive, sketchStyle, layoutVars, animVars>>

(* arguments of drawPencilLine: colour, thickness and pressure in          *)
(* thousandths, and this.data?.pencilResolution || 1.0 in thousandths (the *)
(* field takes no part in the layout and is drawn with the arguments)      *)
Colors == {"#333333"}
Thicknesses == {2000, 3000}
Pressures == {500, 1000}
Resolutions == {1000, 4000}
TailLengths == {20, 70}

(* mutant: drawPencilLine does not restore the alpha of the style *)
drawPencilLineKeepsAlpha(opts, color, thickness, pressure, resolution) ==
    LET originalColor     == opts.color
        originalThickness == opts.thickness
        originalAlpha     == opts.alpha
        during == [color |-> color,
                   thickness |-> Max(1000, (thickness * 500) \div resolution),
                   alpha |-> (originalAlpha * pressure) \div 1000]
    IN  [during |-> during,
         after  |-> [[during EXCEPT !.color = originalColor]
                            EXCEPT !.thickness = originalThickness]]

(* drawPencilLine(x1, y1, x2, y2, color, thickness, pressure) on the style *)
(* opts: the style its strokes are drawn with and the style it leaves;     *)
(* the calls that do not return (an unbounded distance) are left out       *)
drawPencilLine(opts, color, thickness, pressure, resolution) ==
    LET originalColor     == opts.color
        originalThickness == opts.thickness
        originalAlpha     == opts.alpha
        during == [color |-> color,
                   thickness |-> Max(1000, (thickness * 500) \div resolution),
                   alpha |-> (originalAlpha * pressure) \div 1000]
    IN  [during |-> during,
         after  |-> [[[during EXCEPT !.color = originalColor]
                             EXCEPT !.thickness = originalThickness]
                             EXCEPT !.alpha = originalAlpha]]

(* Math.max(5, Math.floor(tailLength / 10)) *)
NumSegments(tailLength) == Max(5, tailLength \div 10)

(* fadeRatio of segment i of n, in thousandths *)
FadeRatio(i, n) == SqrtThousandths(1000 - (i * 1000) \div n)

(* segment i of drawFadingTail: the drawPencilLine call it makes on opts *)
TailSegment(opts, i, n, color, thickness, pressure, resolution) ==
    LET fadeRatio        == FadeRatio(i, n)
        segmentPressure  == (pressure * fadeRatio) \div 1000
        segmentThickness == (thickness * Max(400, fadeRatio)) \div 1000
    IN  drawPencilLine(opts, color, segmentThickness, segmentPressure, resolution)

(* the style left by the segments i .. n-1 of drawFadingTail, and the      *)
(* style the last of them drew with                                        *)
RECURSIVE drawFadingTail(_, _, _, _, _, _, _)
drawFadingTail(opts, i, n, color, thickness, pressure, resolution) ==
    LET seg == TailSegment(opts, i, n, color, thickness, pressure, resolution)
    IN  IF i = n - 1
        THEN seg
        ELSE drawFadingTail(seg.after, i + 1, n, color, thickness, pressure, resolution)

(* a call of drawPencilLine by a drawing step of the renderer *)
CallDrawPencilLine(color, thickness, pressure, resolution) ==
    LET call == drawPencilLine(options, color, thickness, pressure, resolution)
    IN  /\ styleInUse' = Some(call.during)
        /\ options' = call.after
        /\ UNCHANGED <<isDrawing, isStraightLineMode, lastX, lastY, straightLineStartX,
                       straightLineStartY, stroke, strokeActive, straightStroke,
                       layoutVars, animVars>>

(* a call of drawFadingTail by drawProjectLine *)
CallDrawFadingTail(tailLength, color, thickness, pressure, resolution) ==
    LET call == drawFadingTail(options, 0, NumSegments(tailLength), color, thickness,
                               pressure, resolution)
    IN  /\ styleInUse' = Some(call.during)
        /\ options' = call.after
        /\ UNCHANGED <<isDrawing, isStraightLineMode, lastX, lastY, straightLineStartX,
                       straightLineStartY, stroke, strokeActive, straightStroke,
                       layoutVars, animVars>>

SketchNext ==
    \/ \E x \in Coords, y \in Coords : MouseDown(x, y)
    \/ \E x \in Coords, y \in Coords : MouseMove(x, y)
    \/ MouseUp
    \/ MouseOut
    \/ \E x \in Coords, y \in Coords : TouchStart(x, y)
    \/ \E x \in Coords, y \in Coords : TouchMove(x, y)
    \/ TouchEnd
    \/ ToggleStraightLineMode
    \/ \E color \in Colors, thickness \in Thicknesses, pressure \in Pressures,
          resolution \in Resolutions :
            CallDrawPencilLine(color, thickness, pressure, resolution)
    \/ \E tailLength \in TailLengths, color \in Colors, thickness \in Thicknesses,
          pressure \in Pressures, resolution \in Resolutions :
            CallDrawFadingTail(tailLength, color, thickness, pressure, resolution)

SpecSketch == Init /\ [][SketchNext]_vars

-----------------------------------------------------------------------------
Next ==
    \/ GetUniqueThemes
    \/ CalculateRequiredDimensions
    \/ CalculateTimelinePositions
    \/ \E d \in Datasets : LoadDefaultData(d)
    \/ LoadDefaultDataFailed

Spec == Init /\ [][Next]_vars

-----------------------------------------------------------------------------
(* Vocabulary of the properties                                            *)

Loaded == data # NoData
SceneReturned == Loaded /\ positions.status = "returned"
LayoutThrew == Loaded /\ positions.status = "threw"
Scene == positions.value

(* the input projects in the order of allProjects: input project r is the  *)
(* project from which the object objs[r] is made                           *)
InputProjects(d) == d.projectLines \o Flatten([e \in DOMAIN d.epics |-> d.epics[e].projectLines])

BlocksHolding(r) == {b \in DOMAIN Scene.themes : r \in Range(Scene.themes[b].projects)}

WindowValid == data.tend > data.tbeg

SeqPermutations(seq) ==
    {[i \in DOMAIN seq |-> seq[f[i]]] :
        f \in {g \in [DOMAIN seq -> DOMAIN seq] : \A i, j \in DOMAIN seq : g[i] = g[j] => i = j}}

ReferencedThemes(d) ==
    {d.projectLines[i].theme : i \in DOMAIN d.projectLines}
        \cup {d.epics[e].theme : e \in DOMAIN d.epics}

FailsDateRange(project) == project.tend < project.tbeg
FailsTailEnd(project) == project.tailEnd # <<>> /\ project.tailEnd[1] <= project.tend
FailsValidation(project) == FailsDateRange(project) \/ FailsTailEnd(project)

(* the first project, in processing order, that fails a validation *)
FirstFailing(d) ==
    LET all == InputProjects(d)
        i == CHOOSE k \in DOMAIN all :
                 /\ FailsValidation(all[k])
                 /\ \A m \in 1..(k - 1) : ~FailsValidation(all[m])
    IN  all[i]

-----------------------------------------------------------------------------
(* C1: after a layout of a dataset with valid dates, every input project   *)
(* (standalone or epic member) is in the project list of exactly one       *)
(* ThemeBlock of the scene.                                                *)
C1_EveryProjectInExactlyOneBlock ==
    SceneReturned =>
        \A r \in DOMAIN InputProjects(data) : Cardinality(BlocksHolding(r)) = 1

(* C2: in every ThemeBlock of the scene the entries of the project list    *)
(* have strictly increasing y in list order.                               *)
C2_StrictlyIncreasingY ==
    SceneReturned =>
        \A b \in DOMAIN Scene.themes :
            LET list == Scene.themes[b].projects
            IN  \A i \in 1..(Len(list) - 1) : Scene.objs[list[i]].y < Scene.objs[list[i + 1]].y

(* C3: the height returned by calculateRequiredDimensions is at least      *)
(* margin.top + margin.bottom + the bottom buffer + the sum of the heights *)
(* of the ThemeBlocks that the layout produces for the same dataset.       *)
C3_HeightCoversBlocks ==
    (SceneReturned /\ dimensions.status = "returned") =>
        dimensions.value.height >=
            margin.top + margin.bottom + bottomBuffer
            + SeqSum([b \in DOMAIN Scene.themes |-> Scene.themes[b].height])

(* C4: nothing is clipped: every ThemeBlock's bottom edge and every        *)
(* positioned project's y is at most the canvas height returned by         *)
(* calculateRequiredDimensions for the dataset.                            *)
C4_NothingClipped ==
    (SceneReturned /\ dimensions.status = "returned") =>
        /\ \A b \in DOMAIN Scene.themes :
               Scene.themes[b].y + Scene.themes[b].height <= dimensions.value.height
        /\ \A i \in DOMAIN Scene.projects :
               Scene.objs[Scene.projects[i]].y <= dimensions.value.height

(* C5: getUniqueThemes returns a strictly ascending sequence (sorted, no   *)
(* duplicate) of exactly the themes that standalone projects and epics     *)
(* name, the same for every permutation of projectLines and of epics, and  *)
(* the same when called again on the unchanged dataset.                    *)
C5_UniqueThemesSortedAndOrderIndependent ==
    (Loaded /\ themeList.status = "returned") =>
        LET list == themeList.value
        IN  /\ \A i \in 1..(Len(list) - 1) : StrLess(list[i], list[i + 1])
            /\ Range(list) = ReferencedThemes(data) \ {<<>>}
            /\ \A pl \in SeqPermutations(data.projectLines), ep \in SeqPermutations(data.epics) :
                   getUniqueThemes([data EXCEPT !.projectLines = pl, !.epics = ep]) = list
            /\ getUniqueThemes(data) = list

(* C5 witness: the themes were collected in the order B, A and returned    *)
(* as A, B.                                                                *)
C5_Witness ==
    /\ Loaded
    /\ themeList.status = "returned"
    /\ Len(data.projectLines) = 2
    /\ data.projectLines[1].theme = ThemeB
    /\ data.projectLines[2].theme = ThemeA
    /\ themeList.value = <<ThemeA, ThemeB>>

(* C6: when a standalone project or an epic has no theme, the list of      *)
(* getUniqueThemes contains "Default" and the scene has a ThemeBlock named *)
(* "Default" that holds those projects.                                    *)
C6_DefaultThemeListed ==
    (Loaded /\ themeList.status = "returned" /\ <<>> \in ReferencedThemes(data)) =>
        /\ DefaultTheme \in Range(themeList.value)
        /\ SceneReturned =>
               \E b \in DOMAIN Scene.themes :
                   /\ Scene.themes[b].name = DefaultTheme
                   /\ \A r \in DOMAIN Scene.objs :
                          Scene.objs[r].theme = <<>> => r \in Range(Scene.themes[b].projects)

(* C7: for a window with tend after tbeg, every project that               *)
(* processProject accepts has x1 <= x2, also when its dates lie outside    *)
(* the window.                                                             *)
C7_X1AtMostX2 ==
    (SceneReturned /\ WindowValid) =>
        \A r \in DOMAIN Scene.objs : Scene.objs[r].x1 <= Scene.objs[r].x2

(* C7 witness: a positioned project that starts before the window and ends *)
(* after it.                                                               *)
C7_Witness ==
    /\ SceneReturned
    /\ WindowValid
    /\ \E r \in DOMAIN Scene.objs :
           /\ Scene.objs[r].tbeg < data.tbeg
           /\ Scene.objs[r].tend > data.tend
           /\ Scene.objs[r].x1 < Scene.objs[r].x2

C9_DateRangeErrorNamesProject ==
    (Loaded /\ positions.status # "none") =>
        \A r \in DOMAIN InputProjects(data) :
            LET p == InputProjects(data)[r]
            IN  FailsDateRange(p) =>
                    /\ positions.status = "threw"
                    /\ positions.error.message = "Invalid date range for project"
                    /\ positions.error.name = p.name
                    /\ positions.error.first = p.tend
                    /\ positions.error.second = p.tbeg

(* C9, amended: if a project has an end date before its start date, the    *)
(* layout fails and returns no scene; the error names the first project in *)
(* processing order (standalone projects, then the members of each epic)   *)
(* that fails a validation, and when that project's end date is before its *)
(* start date it is the date-range error with the project's two dates.     *)
C9_DateRangeErrorNamesFirstFailing ==
    (Loaded /\ positions.status # "none"
            /\ \E r \in DOMAIN InputProjects(data) : FailsDateRange(InputProjects(data)[r])) =>
        LET p == FirstFailing(data)
        IN  /\ positions.status = "threw"
            /\ "value" \notin DOMAIN positions
            /\ positions.error.name = p.name
            /\ FailsDateRange(p) =>
                   /\ positions.error.message = "Invalid date range for project"
                   /\ positions.error.first = p.tend
                   /\ positions.error.second = p.tbeg

(* C9 witness: the layout threw the date-range error for an epic member    *)
(* after it had processed a valid standalone project.                      *)
C9_Witness ==
    /\ LayoutThrew
    /\ Len(data.projectLines) = 1
    /\ ~FailsValidation(data.projectLines[1])
    /\ positions.error.message = "Invalid date range for project"
    /\ positions.error.name = <<"M", 1, 1>>

(* C10, as stated: if a project has a tailEnd equal to or before its end   *)
(* date, the layout fails with the tail-end error that names the project;  *)
(* a tailEnd after the end date is accepted.                               *)
C10_TailEndErrorNamesProject ==
    (Loaded /\ positions.status # "none") =>
        /\ \A r \in DOMAIN InputProjects(data) :
               LET p == InputProjects(data)[r]
               IN  FailsTailEnd(p) =>
                       /\ positions.status = "threw"
                       /\ positions.error.message = "Invalid tailEnd for project"
                       /\ positions.error.name = p.name
        /\ (\A r \in DOMAIN InputProjects(data) : ~FailsValidation(InputProjects(data)[r]))
               => positions.status = "returned"

(* C10, amended: if a project has a tailEnd equal to or before its end     *)
(* date, the layout fails; the error names the first project in processing *)
(* order that fails a validation, and it is the tail-end error when that   *)
(* project's end date is not before its start date (the date-range check   *)
(* comes first); a dataset in which every tailEnd is after the end date    *)
(* and no end date is before the start date is accepted.                   *)
C10_TailEndErrorNamesFirstFailing ==
    (Loaded /\ positions.status # "none") =>
        /\ (\E r \in DOMAIN InputProjects(data) : FailsTailEnd(InputProjects(data)[r])) =>
               LET p == FirstFailing(data)
               IN  /\ positions.status = "threw"
                   /\ positions.error.name = p.name
                   /\ ~FailsDateRange(p) =>
                          /\ positions.error.message = "Invalid tailEnd for project"
                          /\ positions.error.first = p.tailEnd[1]
                          /\ positions.error.second = p.tend
        /\ (\A r \in DOMAIN InputProjects(data) : ~FailsValidation(InputProjects(data)[r]))
               => positions.status = "returned"

(* C10 witness: the layout threw the tail-end error for a project whose    *)
(* tailEnd equals its end date.                                            *)
C10_Witness ==
    /\ LayoutThrew
    /\ positions.error.message = "Invalid tailEnd for project"
    /\ positions.error.first = positions.error.second

(* C11: if the window has a non-positive duration (tend equal to or before *)
(* tbeg), the layout fails with an InvalidWindow error and returns no      *)
(* scene.                                                                  *)
C11_InvalidWindowRejected ==
    (Loaded /\ positions.status # "none" /\ ~WindowValid) =>
        /\ positions.status = "threw"
        /\ positions.error.message = "InvalidWindow"

(* C12: for an epic with a theme T, every member that names no theme of    *)
(* its own has the theme T in the scene and is listed in the ThemeBlock    *)
(* named T and in no other block.                                          *)
C12_MemberInheritsEpicTheme ==
    SceneReturned =>
        \A e \in DOMAIN data.epics : \A j \in DOMAIN data.epics[e].projectLines :
            (Truthy(data.epics[e].theme) /\ ~Truthy(data.epics[e].projectLines[j].theme)) =>
                LET r == MemberRef(data, e, j)
                IN  /\ Scene.objs[r].theme = data.epics[e].theme
                    /\ BlocksHolding(r) # {}
                    /\ \A b \in BlocksHolding(r) : Scene.themes[b].name = data.epics[e].theme

(* C12 witness: a scene with the blocks A and B in which the untagged      *)
(* member of an epic of theme B is listed in block B, next to a member     *)
(* that names theme A itself.                                              *)
C12_Witness ==
    /\ SceneReturned
    /\ Len(data.epics) = 1
    /\ data.epics[1].theme = ThemeB
    /\ Len(data.epics[1].projectLines) = 2
    /\ data.epics[1].projectLines[1].theme = ThemeA
    /\ data.epics[1].projectLines[2].theme = <<>>
    /\ Len(Scene.themes) = 2
    /\ Scene.objs[MemberRef(data, 1, 2)].theme = ThemeB
    /\ BlocksHolding(MemberRef(data, 1, 2)) = {2}

(* the standalone projects of a block's theme, as references in input      *)
(* order                                                                   *)
StandaloneOf(b) ==
    SelectSeq([i \in DOMAIN data.projectLines |-> i],
              LAMBDA r : ThemeKey(Scene.objs[r].theme) = Scene.themes[b].name)

(* the members of the epics of a block, epic after epic *)
EpicMembersOf(b) ==
    Flatten([i \in DOMAIN Scene.themes[b].epics |->
                Scene.epics[Scene.themes[b].epics[i]].projects])

(* C13: in every ThemeBlock the members of the block's epics follow the    *)
(* theme's S standalone projects without an empty slot: the i-th member,   *)
(* counted across the epics of the theme in order, has the final           *)
(* y = blockTop + 20 + 40 * (S + i - 1).                                   *)
C13_EpicMembersFollowStandalone ==
    SceneReturned =>
        \A b \in DOMAIN Scene.themes :
            LET members == EpicMembersOf(b)
                S == Len(StandaloneOf(b))
            IN  \A i \in DOMAIN members :
                    Scene.objs[members[i]].y
                        = Scene.themes[b].y + topPadding + lineHeight * (S + i - 1)

(* C14: in every ThemeBlock the k-th standalone project of the block's     *)
(* theme, in input order, has y = blockTop + 20 + 40 * (k - 1), whatever   *)
(* the dates of the projects; a dataset of a single project that names a   *)
(* theme yields one ThemeBlock whose project has y = margin.top + 20.      *)
C14_StandaloneSlotsInInputOrder ==
    SceneReturned =>
        /\ \A b \in DOMAIN Scene.themes :
               LET standalone == StandaloneOf(b)
               IN  \A k \in DOMAIN standalone :
                       Scene.objs[standalone[k]].y
                           = Scene.themes[b].y + topPadding + lineHeight * (k - 1)
        /\ (Len(data.projectLines) = 1 /\ data.epics = <<>>
                /\ Truthy(data.projectLines[1].theme)) =>
               /\ Len(Scene.themes) = 1
               /\ Scene.themes[1].projects = <<1>>
               /\ Scene.objs[1].y = margin.top + topPadding

(* C14 witness: three standalone projects of one theme, the first of which *)
(* starts after the second has ended, at 140, 180 and 220 in input order.  *)
C14_Witness ==
    /\ SceneReturned
    /\ Len(data.projectLines) = 3
    /\ data.projectLines[1].tbeg >= data.projectLines[2].tend
    /\ data.projectLines[2].tend > data.projectLines[3].tbeg
    /\ Len(Scene.themes) = 1
    /\ [i \in 1..3 |-> Scene.objs[i].y] = <<140, 180, 220>>

(* C15: the ThemeBlocks of a scene are in strictly ascending order of      *)
(* their names and are stacked without overlap or gap: the first block's   *)
(* top is margin.top, every other block's top is the top plus the height   *)
(* of the block before it, and every block's height is at least            *)
(* max(labelHeight + 20, contentHeight + 40), where contentHeight is 40    *)
(* times the number of projects listed in the block, and at least 80.      *)
C15_BlocksSortedAndStacked ==
    SceneReturned =>
        /\ Scene.themes # <<>> => Scene.themes[1].y = margin.top
        /\ \A b \in 1..(Len(Scene.themes) - 1) :
               /\ StrLess(Scene.themes[b].name, Scene.themes[b + 1].name)
               /\ Scene.themes[b + 1].y = Scene.themes[b].y + Scene.themes[b].height
        /\ \A b \in DOMAIN Scene.themes :
               Scene.themes[b].height
                   >= Max(calculateLabelHeight(Scene.themes[b].name) + 20,
                          Max(80, lineHeight * Len(Scene.themes[b].projects)) + 40)

(* C15 witness: three blocks, the first as high as its label of eleven     *)
(* words requires and higher than its content requires, the third one      *)
(* holding an epic.                                                        *)
C15_Witness ==
    /\ SceneReturned
    /\ Len(Scene.themes) = 3
    /\ Scene.themes[1].name = WordyTheme(11)
    /\ Scene.themes[1].height = 140
    /\ Len(Scene.themes[1].projects) = 2
    /\ Scene.themes[2].y = 260
    /\ Scene.themes[3].y = 380
    /\ Scene.themes[3].epics # <<>>

(* the number of projects of a theme: the standalone projects that name it *)
(* and all members of the epics that name it                               *)
ProjectsOfTheme(d, theme) ==
    Cardinality({i \in DOMAIN d.projectLines : d.projectLines[i].theme = theme})
        + SeqSum([e \in DOMAIN d.epics |->
                     IF d.epics[e].theme = theme THEN Len(d.epics[e].projectLines) ELSE 0])

(* C16: calculateRequiredDimensions returns the height                     *)
(* max(800, margin.top + margin.bottom + 100 + 200 + the sum over the      *)
(* themes of getUniqueThemes of max(labelHeight + 20, contentHeight + 40)) *)
(* where contentHeight is 40 times the number of the theme's standalone    *)
(* projects and epic members, and at least 80, and labelHeight is 20 times *)
(* the number of two-word lines of the theme name.                         *)
C16_HeightCountsEpicMembers ==
    (Loaded /\ dimensions.status = "returned") =>
        LET themes == getUniqueThemes(data)
            labelHeight(theme) == 20 * CeilDiv(WordCount(theme), 2)
            contentHeight(theme) == Max(80, 40 * ProjectsOfTheme(data, theme))
        IN  dimensions.value.height
                = Max(800, margin.top + margin.bottom + 100 + 200
                           + SeqSum([i \in DOMAIN themes |->
                                        Max(labelHeight(themes[i]) + 20,
                                            contentHeight(themes[i]) + 40)]))

(* C17: every epic of the scene with at least one member has minY equal to *)
(* the minimum and maxY equal to the maximum of the y values that its own  *)
(* members have in the scene, whatever the themes of the epic and of its   *)
(* members.                                                                *)
C17_EpicBoxSpansMembers ==
    SceneReturned =>
        \A k \in DOMAIN Scene.epics :
            LET memberYs == {Scene.objs[r].y : r \in Range(Scene.epics[k].projects)}
            IN  memberYs # {} =>
                    /\ Scene.epics[k].minY = Some(SetMin(memberYs))
                    /\ Scene.epics[k].maxY = Some(SetMax(memberYs))

C19_YAssignedOnce ==
    SceneReturned =>
        \A r \in DOMAIN Scene.objs : Scene.objs[r].yWrites = 1

(* C20: calculateRequiredDimensions returns the width 1200 and a height of *)
(* at least 800 for every dataset, also one without projects and epics,    *)
(* and exactly (1200, 800) when no dataset is loaded.                      *)
C20_FixedWidthMinimumHeight ==
    dimensions.status = "returned" =>
        /\ dimensions.value.width = 1200
        /\ dimensions.value.height >= 800
        /\ ~Loaded => dimensions.value = [width |-> 1200, height |-> 800]

(* C20 witness: a dataset of three themes, for which the height is above   *)
(* the minimum.                                                            *)
C20_Witness ==
    /\ Loaded
    /\ dimensions.status = "returned"
    /\ Len(getUniqueThemes(data)) = 3
    /\ dimensions.value.width = 1200
    /\ dimensions.value.height > 800

(* the place of a drawing call in the order of the rendering *)
Phase(op) ==
    CASE op = "clearCanvas" -> 0
      [] op = "drawTopTimeline" -> 1
      [] op = "drawThemeLane" -> 2
      [] op = "drawEpicGrouping" -> 3
      [] op = "drawProjectLine" -> 4
      [] op = "drawProjectLabel" -> 4
      [] op = "drawEpicLabel" -> 5

CallsOf(op) == SelectSeq(drawLog, LAMBDA c : c.op = op)

(* C21: the drawing calls of a renderTimeline on loaded data are, in this  *)
(* order: the canvas clear, the top timeline, all theme lanes, all epic    *)
(* backgrounds, all project lines each followed by its label, all epic     *)
(* labels; no epic background comes after a project line and no epic label *)
(* before the last project line.                                           *)
C21_RenderingOrder ==
    (Loaded /\ drawLog # <<>>) =>
        /\ drawLog[1].op = "clearCanvas"
        /\ \A i \in 1..(Len(drawLog) - 1) :
               /\ Phase(drawLog[i].op) <= Phase(drawLog[i + 1].op)
               /\ drawLog[i + 1].op # "clearCanvas"
        /\ \A i \in DOMAIN drawLog :
               drawLog[i].op = "drawProjectLine" =>
                   /\ i < Len(drawLog)
                   /\ drawLog[i + 1] = Call("drawProjectLabel", drawLog[i].arg)
        /\ Len(drawLog) > 1 =>
               /\ positions.status = "returned"
               /\ drawLog[2].op = "drawTopTimeline"
               /\ [i \in DOMAIN CallsOf("drawThemeLane") |-> CallsOf("drawThemeLane")[i].arg]
                      = [b \in DOMAIN Scene.themes |-> b]
               /\ [i \in DOMAIN CallsOf("drawEpicGrouping") |-> CallsOf("drawEpicGrouping")[i].arg]
                      = [k \in DOMAIN Scene.epics |-> k]
               /\ [i \in DOMAIN CallsOf("drawProjectLine") |-> CallsOf("drawProjectLine")[i].arg]
                      = Scene.projects
               /\ [i \in DOMAIN CallsOf("drawEpicLabel") |-> CallsOf("drawEpicLabel")[i].arg]
                      = [k \in DOMAIN Scene.epics |-> k]

(* C21 witness: a frame of the running animation has drawn two lanes, an   *)
(* epic background, project lines with labels and an epic label.           *)
C21_Witness ==
    /\ Loaded
    /\ isPlaying
    /\ frames = 0
    /\ nextTimerId = 3
    /\ Len(CallsOf("drawThemeLane")) = 2
    /\ Len(CallsOf("drawEpicGrouping")) = 1
    /\ Len(CallsOf("drawProjectLine")) >= 2
    /\ drawLog[Len(drawLog)] = Call("drawEpicLabel", 1)

PendingCallbacks == Cardinality(timers) + frames

(* C22: at most one animation loop is alive at any time: while the         *)
(* animation plays, at most one timer or requestAnimationFrame callback    *)
(* that will go on to render is pending, also after a stop that is         *)
(* followed by a start while a frame callback is pending.                  *)
C22_AtMostOneLoop ==
    isPlaying => PendingCallbacks <= 1

(* C23: after stopAnimation has returned and until the next startAnimation *)
(* call, no timer and no requestAnimationFrame callback of the loop        *)
(* invokes renderTimeline.                                                 *)
C23_NoRenderAfterStop ==
    [][history.stopped =>
           /\ AnimationFrame => drawLog' = <<>>
           /\ \A id \in 1..MaxTimerId : TimerFires(id) => drawLog' = <<>>]_vars

(* C23 witness: the animation was stopped while the frame callback of the  *)
(* loop was pending.                                                       *)
C23_Witness ==
    /\ history.stopped
    /\ ~isPlaying
    /\ frames = 1
    /\ timers = {}
    /\ nextTimerId = 2

(* C24: while isPlaying is true and stopAnimation has not been called      *)
(* since the start, the loop is alive: between two handlers a timer or a   *)
(* requestAnimationFrame callback is pending that will invoke              *)
(* renderTimeline again, for every dataset that startAnimation accepts.    *)
C24_LoopStaysAlive ==
    (isPlaying /\ ~history.stopped) => PendingCallbacks >= 1

(* C25: once stopAnimation has been called or startAnimation has been      *)
(* called with data loaded, the play button is disabled exactly when       *)
(* isPlaying is true and the stop button exactly when it is false; a       *)
(* startAnimation call without data or while the animation plays changes   *)
(* neither isPlaying nor a button.                                         *)
C25_ButtonsFollowIsPlaying ==
    /\ [](history.controlsUsed =>
              (playDisabled = Some(isPlaying) /\ stopDisabled = Some(~isPlaying)))
    /\ [][(ClickPlay /\ (data = NoData \/ isPlaying)) =>
              UNCHANGED <<isPlaying, playDisabled, stopDisabled>>]_vars

(* C25 witness: the animation plays again after a stop, with the play      *)
(* button disabled and the stop button enabled.                            *)
C25_Witness ==
    /\ history.controlsUsed
    /\ isPlaying
    /\ nextTimerId = 3
    /\ playDisabled = Some(TRUE)
    /\ stopDisabled = Some(FALSE)

(* a file load fails: JSON.parse throws or the first renderTimeline throws *)
LoadFails(file) == file = NotJson \/ RenderThrows(file, requiredWidth)

(* C26: a failed file load leaves the dataset unchanged: if the onload     *)
(* handler of loadFile fails, because JSON.parse throws or because the     *)
(* first renderTimeline throws a date-validation error, this.data is the   *)
(* dataset held before the load.                                           *)
C26_FailedLoadKeepsData ==
    [][\A file \in Files : (FileReaderOnload(file) /\ LoadFails(file)) => data' = data]_vars

(* C27: once loadFile has installed a file of the user, this.data is that  *)
(* file whatever the order of the fetch completion and the FileReader      *)
(* completion, and the dataset is never replaced while the animation plays *)
(* without the animation being stopped.                                    *)
C27_UserFileNotReplaced ==
    /\ [](history.userData # None => data = history.userData[1])
    /\ [][(isPlaying /\ data' # data) => ~isPlaying']_vars

(* a step is a call of drawPencilLine or of drawFadingTail that returns *)
PencilLineCall ==
    \/ \E color \in Colors, thickness \in Thicknesses, pressure \in Pressures,
          resolution \in Resolutions :
            CallDrawPencilLine(color, thickness, pressure, resolution)
    \/ \E tailLength \in TailLengths, color \in Colors, thickness \in Thicknesses,
          pressure \in Pressures, resolution \in Resolutions :
            CallDrawFadingTail(tailLength, color, thickness, pressure, resolution)

(* C28: drawPencilLine leaves the shared pencil style unchanged: after     *)
(* every call that returns, also the calls made by drawFadingTail, the     *)
(* color, thickness and alpha of pencil.options are what they were before  *)
(* the call, so that the style never drifts from the one it was built with *)
C28_StyleRestored ==
    /\ [][options' = options \/ ~PencilLineCall]_vars
    /\ [](options = [color |-> "#336699", thickness |-> 2000, alpha |-> 900])

(* C28 witness: a call drew with another colour, thickness and alpha than  *)
(* the style holds after it                                                *)
C28_Witness ==
    /\ styleInUse # None
    /\ styleInUse[1].color # options.color
    /\ styleInUse[1].thickness # options.thickness
    /\ styleInUse[1].alpha # options.alpha

(* a step is a mousemove or a touchmove event *)
MoveEvent == \E x \in Coords, y \in Coords : MouseMove(x, y) \/ TouchMove(x, y)

(* C29: a move event calls _drawPencilStroke only during an active stroke  *)
(* (a mousedown or touchstart with no mouseup, mouseout or touchend after  *)
(* it), and a move event outside an active stroke changes neither          *)
(* lastX/lastY nor the canvas.                                             *)
C29_DrawsOnlyDuringStroke ==
    [][MoveEvent =>
          /\ (stroke' # None => strokeActive)
          /\ (~strokeActive => (lastX' = lastX /\ lastY' = lastY /\ stroke' = None))]_vars

(* C29 witness: a move event of an active stroke drew a segment between    *)
(* two different points                                                    *)
C29_Witness ==
    /\ strokeActive
    /\ stroke # None
    /\ <<stroke[1][1], stroke[1][2]>> # <<stroke[1][3], stroke[1][4]>>

(* the two end points of a segment share their x or their y *)
AxisAligned(segment) == segment[1] = segment[3] \/ segment[2] = segment[4]

(* C30: in a stroke that started in straight-line mode, with the mode left *)
(* on, every segment that _draw passes to _drawPencilStroke is             *)
(* axis-aligned.                                                           *)
C30_StraightSegments ==
    [][(MoveEvent /\ straightStroke /\ stroke' # None) => AxisAligned(stroke'[1])]_vars

====
